---- MODULE Spec2Model ----
(***************************************************************************)
(* Model of stacktracify: loading of source map consumers, reading and     *)
(* parsing of the stack trace, and the per-frame resolution pass with its  *)
(* preferredConsumerOrder heuristic.  The repository holds three versions  *)
(* of the program (src/index.js, src/unnamed/part_000, part_001); the      *)
(* variable `variant` says which one runs.                                 *)
(*                                                                         *)
(* JavaScript values: an optional value (null / undefined or a value) is   *)
(* the empty sequence or a one-element sequence; a null or absent string   *)
(* is "", which `||` treats the same way.                                  *)
(***************************************************************************)
EXTENDS Integers, Sequences, FiniteSets, TLC

VARIABLES variant, mapPath, tasks, consumers, preferredConsumerOrder, pc,
          stack, fi, trace, diag, queried, lastKind, lastPos, first, swapCount

vars == <<variant, mapPath, tasks, consumers, preferredConsumerOrder, pc,
          stack, fi, trace, diag, queried, lastKind, lastPos, first, swapCount>>

\* ------------------------------------------------------------------ bounds
MaxDocs == 2
MaxFrames == 2

\* ------------------------------------------------------------ JS optionals
None == <<>>
Some(x) == <<x>>

\* ------------------------------------------------------- source map inputs
Seg(gl, gc, src, ol, oc, nm) ==
  [genLine |-> gl, genCol |-> gc, source |-> src, line |-> ol, column |-> oc, name |-> nm]

\* a.map maps generated (1,10); b.map maps generated lines 1 and 2 and its
\* query fails on generated line 3.
DocA == [file |-> "a.map", status |-> "ok",
         segs |-> {Seg(1, 10, "src/foo.ts", 5, 2, "foo")}, throwsOn |-> {}]
DocB == [file |-> "b.map", status |-> "ok",
         segs |-> {Seg(1, 0, "src/bar.ts", 9, 1, "baz"), Seg(2, 0, "src/bar.ts", 7, 0, "")},
         throwsOn |-> {3}]
BadDoc(st) == [file |-> "bad.map", status |-> st, segs |-> {}, throwsOn |-> {}]

Docs == {DocA, DocB, BadDoc("unreadable"), BadDoc("malformed"), BadDoc("empty")}

SeqsUpTo(S, n) == UNION {[1..k -> S] : k \in 0..n}

Variants == {"index", "part_000", "part_001"}

MapPaths ==
  {[given |-> FALSE, isArray |-> FALSE, docs |-> <<>>]}
    \cup {[given |-> TRUE, isArray |-> FALSE, docs |-> <<d>>] : d \in Docs}
    \cup {[given |-> TRUE, isArray |-> TRUE, docs |-> ds] : ds \in SeqsUpTo(Docs, MaxDocs)}

\* ------------------------------------------------------ stack trace inputs
\* A raw line is its tokens; Text gives the characters.
RawLine(fm, m, f, l, c) ==
  [form |-> fm, ws |-> "    ", method |-> m, file |-> f, line |-> l, column |-> c]

HeaderLine == [form |-> "text", ws |-> "", method |-> "", file |-> "Error: boom",
               line |-> None, column |-> None]

BodyLines ==
  { RawLine("at", "foo", "bundle.js", Some(1), Some(10)),
    RawLine("bare", "bar", "index-abc123.js", Some(2), Some(5)),
    RawLine("at", "", "bundle.js", Some(3), Some(7)),
    RawLine("at", "", "native", None, None),
    RawLine("at", "foo", "bundle.js", Some(0), Some(4)) }

TraceInputs ==
  {<<>>} \cup {<<HeaderLine>> \o b : b \in SeqsUpTo(BodyLines, MaxFrames)}

Loc(l) ==
  IF l.line = None THEN l.file
  ELSE l.file \o ":" \o ToString(l.line[1]) \o ":" \o ToString(l.column[1])

Text(l) ==
  CASE l.form = "text" -> l.file
    [] l.form = "bare" -> l.ws \o Loc(l) \o " " \o l.method
    [] l.form = "at" ->
         IF l.method = "" THEN l.ws \o "at " \o Loc(l)
         ELSE l.ws \o "at " \o l.method \o " (" \o Loc(l) \o ")"

\* str.includes('at'): of the lines above only those with the "at" keyword
\* contain the substring.
IncludesAt(str) == \E i \in 1..Len(str) : str[i].form = "at"

\* lines.map(...): `<ws><file>:<line>:<col> <method>` becomes
\* `<ws>at <method> (<file>:<line>:<col>)`; other lines pass through.
Normalize(l) == IF l.form = "bare" THEN [l EXCEPT !.form = "at"] ELSE l

\* stackTraceParser.parse: one frame per "at" line, other lines dropped.
RECURSIVE Parse(_)
Parse(lines) ==
  IF lines = <<>> THEN <<>>
  ELSE LET l == Head(lines)
       IN (IF l.form = "at"
           THEN <<[methodName |-> l.method, file |-> l.file,
                   lineNumber |-> l.line, column |-> l.column]>>
           ELSE <<>>) \o Parse(Tail(lines))

NormalizeAll(lines) == [i \in 1..Len(lines) |-> Normalize(lines[i])]

\* ------------------------------------------------------------- table objects
NewTable(i, doc) == [doc |-> i, segs |-> doc.segs, throwsOn |-> doc.throwsOn, props |-> {}]

GetProp(obj, k) ==
  IF \E p \in obj.props : p.key = k
  THEN (CHOOSE p \in obj.props : p.key = k).val
  ELSE None

SetProp(obj, k, v) ==
  [obj EXCEPT !.props = {p \in obj.props : p.key # k} \cup {[key |-> k, val |-> v]}]

NotFound == [source |-> "", line |-> None, column |-> None, name |-> ""]

\* consumer.originalPositionFor(lookup): the segment of the queried generated
\* line with the greatest generated column <= the queried column.
OriginalPositionFor(consumer, lookup) ==
  IF lookup.line \in consumer.throwsOn THEN [threw |-> TRUE, value |-> NotFound]
  ELSE LET cand == {s \in consumer.segs : s.genLine = lookup.line /\ s.genCol <= lookup.column}
       IN IF cand = {} THEN [threw |-> FALSE, value |-> NotFound]
          ELSE LET s == CHOOSE x \in cand : \A y \in cand : y.genCol <= x.genCol
               IN [threw |-> FALSE,
                   value |-> [source |-> s.source, line |-> Some(s.line),
                              column |-> Some(s.column), name |-> s.name]]

\* lookupValue?.line as a condition
Truthy(optNum) == optNum # None /\ optNum[1] # 0


\* ------------------------------------------------------------ resolution
\* The swap branch of findPositionInAllSourceMaps: `consumer` is the table
\* under the loop variable, so the three statements read and write its own
\* properties "0" and "<index>"; the array `consumers` keeps its order.
SwapBranch(cons, index, lookupValue) ==
  LET consumer == cons[index + 1]
      swap == GetProp(consumer, 0)
      c1 == SetProp(consumer, 0, Some(lookupValue))
      c2 == SetProp(c1, index, swap)
  IN [cons EXCEPT ![index + 1] = c2]

FindResult(th, p, q, cons, pref, sw) ==
  [threw |-> th, pos |-> p, queried |-> q, consumers |-> cons, preferred |-> pref, swaps |-> sw]

\* The for-of loop of findPositionInAllSourceMaps from position `index` on.
RECURSIVE Scan(_, _, _, _, _)
Scan(cons, pref, lookup, index, q) ==
  IF index >= Len(cons) THEN FindResult(FALSE, None, q, cons, pref, 0)
  ELSE LET r == OriginalPositionFor(cons[index + 1], lookup)
           q1 == Append(q, index)
       IN IF r.threw THEN FindResult(TRUE, None, q1, cons, pref, 0)
          ELSE IF Truthy(r.value.line)
               THEN IF ~pref
                    THEN IF index = 0
                         THEN FindResult(FALSE, Some(r.value), q1, cons, TRUE, 0)
                         ELSE FindResult(FALSE, Some(r.value), q1,
                                         SwapBranch(cons, index, r.value), TRUE, 1)
                    ELSE FindResult(FALSE, Some(r.value), q1, cons, pref, 0)
               ELSE Scan(cons, pref, lookup, index + 1, q1)

\* Variant of the loop with the `return lookupValue` missing: every table is
\* queried and the last match wins.
RECURSIVE ScanNoReturn(_, _, _, _, _)
ScanNoReturn(cons, pref, lookup, index, q) ==
  IF index >= Len(cons) THEN FindResult(FALSE, None, q, cons, pref, 0)
  ELSE LET r == OriginalPositionFor(cons[index + 1], lookup)
           q1 == Append(q, index)
       IN IF r.threw THEN FindResult(TRUE, None, q1, cons, pref, 0)
          ELSE IF Truthy(r.value.line)
               THEN LET c1 == IF ~pref /\ index # 0 THEN SwapBranch(cons, index, r.value) ELSE cons
                        sw == IF ~pref /\ index # 0 THEN 1 ELSE 0
                        rest == ScanNoReturn(c1, TRUE, lookup, index + 1, q1)
                    IN IF rest.threw \/ rest.pos # None
                       THEN [rest EXCEPT !.swaps = sw]
                       ELSE FindResult(FALSE, Some(r.value), rest.queried, c1, TRUE, sw)
               ELSE ScanNoReturn(cons, pref, lookup, index + 1, q1)

findPositionNoReturn(cons, pref, lookup) == ScanNoReturn(cons, pref, lookup, 0, <<>>)

\* Variant of the loop whose swap branch lacks `preferredConsumerOrder = true`.
RECURSIVE ScanUnsettled(_, _, _, _, _)
ScanUnsettled(cons, pref, lookup, index, q) ==
  IF index >= Len(cons) THEN FindResult(FALSE, None, q, cons, pref, 0)
  ELSE LET r == OriginalPositionFor(cons[index + 1], lookup)
           q1 == Append(q, index)
       IN IF r.threw THEN FindResult(TRUE, None, q1, cons, pref, 0)
          ELSE IF Truthy(r.value.line)
               THEN IF ~pref
                    THEN IF index = 0
                         THEN FindResult(FALSE, Some(r.value), q1, cons, TRUE, 0)
                         ELSE FindResult(FALSE, Some(r.value), q1,
                                         SwapBranch(cons, index, r.value), pref, 1)
                    ELSE FindResult(FALSE, Some(r.value), q1, cons, pref, 0)
               ELSE ScanUnsettled(cons, pref, lookup, index + 1, q1)

findPositionUnsettled(cons, pref, lookup) == ScanUnsettled(cons, pref, lookup, 0, <<>>)

findPositionInAllSourceMaps(cons, pref, lookup) == Scan(cons, pref, lookup, 0, <<>>)

OrUnknown(name) == IF name = "" THEN "[unknown]" ELSE name

ErrText == "Error: lookup failed"
FailedMarker == "    at FAILED_TO_PARSE_LINE"

\* console.log(err, `    at FAILED_TO_PARSE_LINE`): the arguments joined by a space.
CatchLine == ErrText \o " " \o FailedMarker

NoLineText(methodName) == "    at " \o OrUnknown(methodName)

ResolvedText(pos, methodName) ==
  "    at " \o (IF pos.name # "" THEN pos.name ELSE OrUnknown(methodName))
    \o " (" \o pos.source \o ":" \o ToString(pos.line[1]) \o ":" \o ToString(pos.column[1]) \o ")"

\* Variant of the guard without `lineNumber < 1`.
NoUsableLineNullOnly(frame) == frame.lineNumber = None

NoUsableLine(frame) == frame.lineNumber = None \/ frame.lineNumber[1] < 1

BodyResult(k, ls, r) ==
  [kind |-> k, lines |-> ls, pos |-> r.pos, queried |-> r.queried, consumers |-> r.consumers,
   preferred |-> r.preferred, swaps |-> r.swaps]

\* Variant of the callback with an empty catch block.
ForEachBodySilentCatch(frame, cons, pref) ==
  IF NoUsableLine(frame)
  THEN BodyResult("noline", <<NoLineText(frame.methodName)>>,
                  FindResult(FALSE, None, <<>>, cons, pref, 0))
  ELSE LET r == findPositionInAllSourceMaps(cons, pref,
                  [line |-> frame.lineNumber[1], column |-> frame.column[1]])
       IN IF r.threw THEN BodyResult("threw", <<>>, r)
          ELSE IF r.pos # None /\ r.pos[1].line # None
               THEN BodyResult("resolved", <<ResolvedText(r.pos[1], frame.methodName)>>, r)
               ELSE BodyResult("notfound", <<>>, r)

\* Variant of the callback that prints the bare method name for a frame no
\* table resolves.
ForEachBodyPrintsMiss(frame, cons, pref) ==
  IF NoUsableLine(frame)
  THEN BodyResult("noline", <<NoLineText(frame.methodName)>>,
                  FindResult(FALSE, None, <<>>, cons, pref, 0))
  ELSE LET r == findPositionInAllSourceMaps(cons, pref,
                  [line |-> frame.lineNumber[1], column |-> frame.column[1]])
       IN IF r.threw THEN BodyResult("threw", <<CatchLine>>, r)
          ELSE IF r.pos # None /\ r.pos[1].line # None
               THEN BodyResult("resolved", <<ResolvedText(r.pos[1], frame.methodName)>>, r)
               ELSE BodyResult("notfound", <<NoLineText(frame.methodName)>>, r)

\* The callback of stack.forEach, its try/catch included.
ForEachBody(frame, cons, pref) ==
  IF NoUsableLine(frame)
  THEN BodyResult("noline", <<NoLineText(frame.methodName)>>,
                  FindResult(FALSE, None, <<>>, cons, pref, 0))
  ELSE LET r == findPositionInAllSourceMaps(cons, pref,
                  [line |-> frame.lineNumber[1], column |-> frame.column[1]])
       IN IF r.threw THEN BodyResult("threw", <<CatchLine>>, r)
          ELSE IF r.pos # None /\ r.pos[1].line # None
               THEN BodyResult("resolved", <<ResolvedText(r.pos[1], frame.methodName)>>, r)
               ELSE BodyResult("notfound", <<>>, r)

\* --------------------------------------------------------------- the run
Concurrent == variant = "index" /\ mapPath.isArray

NDocs == Len(mapPath.docs)

\* pcs at which the main flow is suspended in an await or has ended, so that
\* a pending load callback can run.
TaskPcs == {"loading", "readTrace", "done", "aborted"}

Init ==
  /\ variant \in Variants
  /\ mapPath \in MapPaths
  /\ tasks = [i \in 1..Len(mapPath.docs) |-> "idle"]
  /\ consumers = <<>>
  /\ preferredConsumerOrder = FALSE
  /\ pc = "start"
  /\ stack = <<>>
  /\ fi = 1
  /\ trace = <<>>
  /\ diag = <<>>
  /\ queried = <<>>
  /\ lastKind = "none"
  /\ lastPos = None
  /\ first = [index |-> -1, doc |-> 0]
  /\ swapCount = 0

\* Entry of stacktracify up to the first await of the loading block.
Start ==
  /\ pc = "start"
  /\ LET d0 == IF variant = "index" THEN <<"log: args">> ELSE <<>>
     IN IF ~mapPath.given
        THEN /\ pc' = "help"
             /\ diag' = Append(d0, "help")
             /\ tasks' = tasks
        ELSE /\ diag' = d0
             /\ IF Concurrent
                THEN /\ tasks' = [i \in 1..NDocs |-> "reading"]
                     /\ pc' = "loading"
                ELSE IF NDocs = 0
                     THEN /\ tasks' = tasks
                          /\ pc' = "checkTables"
                     ELSE /\ tasks' = [i \in 1..NDocs |-> IF i = 1 THEN "reading" ELSE "idle"]
                          /\ pc' = "loading"
  /\ UNCHANGED <<variant, mapPath, consumers, preferredConsumerOrder, stack, fi, trace,
                 queried, lastKind, lastPos, first, swapCount>>

LoadErrorLog == "log: error loading source map consumers"

\* `await fs.readFile(m)` of document i settles, followed by JSON.parse.
TaskRead(i) ==
  /\ pc \in TaskPcs
  /\ tasks[i] = "reading"
  /\ LET st == mapPath.docs[i].status
     IN IF st = "ok"
        THEN /\ tasks' = [tasks EXCEPT ![i] = "constructing"]
             /\ UNCHANGED <<pc, diag>>
        ELSE IF st = "empty" /\ variant = "part_001" /\ mapPath.isArray
             THEN \* if (!file) return;
                  /\ tasks' = [tasks EXCEPT ![i] = "returned"]
                  /\ pc' = "returned"
                  /\ UNCHANGED diag
             ELSE /\ tasks' = [tasks EXCEPT ![i] = "rejected"]
                  /\ IF Concurrent
                     THEN UNCHANGED <<pc, diag>>
                     ELSE /\ pc' = "checkTables"
                          /\ diag' = Append(diag, LoadErrorLog)
  /\ UNCHANGED <<variant, mapPath, consumers, preferredConsumerOrder, stack, fi, trace,
                 queried, lastKind, lastPos, first, swapCount>>

\* `await new SourceMapConsumer(mapContent)` of document i settles, followed
\* by consumers.push(smc).
TaskBuilt(i) ==
  /\ pc \in TaskPcs
  /\ tasks[i] = "constructing"
  /\ IF variant = "part_000" /\ ~mapPath.isArray
     THEN \* promises.push(...): `promises` is not declared, the push is not reached
          /\ tasks' = [tasks EXCEPT ![i] = "rejected"]
          /\ pc' = "checkTables"
          /\ diag' = Append(diag, LoadErrorLog)
          /\ UNCHANGED consumers
     ELSE /\ consumers' = Append(consumers, NewTable(i, mapPath.docs[i]))
          /\ UNCHANGED diag
          /\ IF Concurrent
             THEN /\ tasks' = [tasks EXCEPT ![i] = "done"]
                  /\ UNCHANGED pc
             ELSE IF i < NDocs
                  THEN /\ tasks' = [tasks EXCEPT ![i] = "done", ![i + 1] = "reading"]
                       /\ UNCHANGED pc
                  ELSE /\ tasks' = [tasks EXCEPT ![i] = "done"]
                       /\ pc' = "checkTables"
  /\ UNCHANGED <<variant, mapPath, preferredConsumerOrder, stack, fi, trace,
                 queried, lastKind, lastPos, first, swapCount>>

\* `await Promise.all(...)` settles: fulfilled when every callback is done,
\* rejected as soon as one callback has rejected.
Join ==
  /\ Concurrent
  /\ pc = "loading"
  /\ \/ \A i \in 1..NDocs : tasks[i] = "done"
     \/ \E i \in 1..NDocs : tasks[i] = "rejected"
  /\ pc' = "checkTables"
  /\ diag' = IF \E i \in 1..NDocs : tasks[i] = "rejected"
             THEN Append(diag, LoadErrorLog) ELSE diag
  /\ UNCHANGED <<variant, mapPath, tasks, consumers, preferredConsumerOrder, stack, fi,
                 trace, queried, lastKind, lastPos, first, swapCount>>

\* if (!consumers?.length) ...
CheckTables ==
  /\ pc = "checkTables"
  /\ IF Len(consumers) = 0
     THEN /\ pc' = "aborted"
          /\ diag' = Append(diag, "error: Unable to resolve source map consumers!")
     ELSE /\ pc' = "readTrace"
          /\ UNCHANGED diag
  /\ UNCHANGED <<variant, mapPath, tasks, consumers, preferredConsumerOrder, stack, fi,
                 trace, queried, lastKind, lastPos, first, swapCount>>

\* The read of the stack trace settles (it rejects when ~readable, else it
\* yields `inp`), then the synchronous part up to the header line.
ReadTraceWith(readable, inp) ==
  IF ~readable
  THEN /\ pc' = "aborted"
       /\ diag' = Append(diag, "error: read failed")
       /\ UNCHANGED <<stack, trace>>
  ELSE IF variant = "part_000" /\ (Len(inp) = 0 \/ ~IncludesAt(inp))
       THEN /\ pc' = "aborted"
            /\ diag' = Append(diag, "error: Unable to identify stack trace!")
            /\ UNCHANGED <<stack, trace>>
       ELSE LET header == IF Len(inp) = 0 THEN "" ELSE Text(inp[1])
                lines == IF Len(inp) = 0 THEN <<>> ELSE NormalizeAll(Tail(inp))
                parsed == Parse(lines)
            IN IF Len(parsed) = 0
               THEN /\ pc' = "aborted"
                    /\ diag' = Append(diag, "error: No stack found")
                    /\ UNCHANGED <<stack, trace>>
               ELSE /\ pc' = "resolving"
                    /\ stack' = parsed
                    /\ trace' = IF header # "" THEN <<header>> ELSE <<>>
                    /\ UNCHANGED diag

ReadTrace ==
  /\ pc = "readTrace"
  /\ \/ ReadTraceWith(FALSE, <<>>)
     \/ \E inp \in TraceInputs : ReadTraceWith(TRUE, inp)
  /\ UNCHANGED <<variant, mapPath, tasks, consumers, preferredConsumerOrder, fi,
                 queried, lastKind, lastPos, first, swapCount>>

\* One iteration of stack.forEach.
ResolveFrame ==
  /\ pc = "resolving"
  /\ fi <= Len(stack)
  /\ LET r == ForEachBody(stack[fi], consumers, preferredConsumerOrder)
     IN /\ trace' = trace \o r.lines
        /\ consumers' = r.consumers
        /\ preferredConsumerOrder' = r.preferred
        /\ queried' = r.queried
        /\ lastKind' = r.kind
        /\ lastPos' = r.pos
        /\ swapCount' = swapCount + r.swaps
        /\ first' = IF first.index = -1 /\ r.kind = "resolved"
                    THEN [index |-> r.queried[Len(r.queried)],
                          doc |-> consumers[r.queried[Len(r.queried)] + 1].doc]
                    ELSE first
  /\ fi' = fi + 1
  /\ pc' = IF fi < Len(stack) THEN "resolving" ELSE "done"
  /\ UNCHANGED <<variant, mapPath, tasks, stack, diag>>

Next ==
  \/ Start
  \/ \E i \in 1..NDocs : TaskRead(i)
  \/ \E i \in 1..NDocs : TaskBuilt(i)
  \/ Join
  \/ CheckTables
  \/ ReadTrace
  \/ ResolveFrame

Spec == Init /\ [][Next]_vars

\* ================================================================ claims

\* The frame about to be processed, and what each table answers for it.
CurFrame == stack[fi]
CurUsable == CurFrame.lineNumber # None /\ CurFrame.lineNumber[1] >= 1
CurLookup == [line |-> CurFrame.lineNumber[1], column |-> CurFrame.column[1]]
Answer(i) == OriginalPositionFor(consumers[i + 1], CurLookup)
Indexes == 0..(Len(consumers) - 1)
Hits == {i \in Indexes : ~Answer(i).threw /\ Answer(i).value.line # None}
Throwers == {i \in Indexes : Answer(i).threw}
Least(S) == CHOOSE x \in S : \A y \in S : x <= y
Prefix(k) == [j \in 1..(k + 1) |-> j - 1]
\* some table throws before any table has answered with a line
ThrowsFirst == Throwers # {} /\ \A h \in Hits : Least(Throwers) < h
Continues == fi' = fi + 1 /\ stack' = stack
             /\ pc' = (IF fi < Len(stack) THEN "resolving" ELSE "done")
LoadingOver == pc \notin {"start", "help", "loading"}
Loaded(i) == \E j \in 1..Len(consumers) : consumers[j].doc = i

\* C1 (as claimed): with a list of documents, once loading is over every
\* document that is loadable has its table in the Table Set, whatever other
\* documents of the list failed.
C1_EveryLoadableDocumentLoaded ==
  (mapPath.isArray /\ LoadingOver) =>
     \A i \in 1..NDocs : mapPath.docs[i].status = "ok" => Loaded(i)

\* C2 (as claimed): the tables stand in the Table Set in the order their
\* documents were given: the table of document j precedes that of document k
\* whenever j was given before k.
C2_TablesInInputOrder ==
  \A j, k \in 1..Len(consumers) : j < k => consumers[j].doc < consumers[k].doc

\* C3: for a frame with a usable line number the tables are queried in the
\* Table Set's order up to and including the first one that answers with a
\* line, whose answer is returned and no later table is queried; when no
\* table answers with a line (and none throws) every table is queried and
\* the result is undefined.
C3_FirstMatchShortCircuit ==
  [][(pc = "resolving" /\ CurUsable /\ ~ThrowsFirst) =>
       IF Hits # {}
       THEN /\ lastKind' = "resolved"
            /\ queried' = Prefix(Least(Hits))
            /\ lastPos' = Some(Answer(Least(Hits)).value)
       ELSE /\ lastKind' = "notfound"
            /\ queried' = Prefix(Len(consumers) - 1)
            /\ lastPos' = None]_vars

C3_Witness ==
  /\ lastKind = "resolved"
  /\ queried = <<0, 1>>
  /\ Len(consumers) = 2
  /\ lastPos = Some([source |-> "src/bar.ts", line |-> Some(7), column |-> Some(0), name |-> ""])

\* C4 (as claimed): once the first successful resolution has happened at an
\* index other than 0, the preference is settled and the table that resolved
\* it is the first of the Table Set's iteration order.
C4_SuccessfulTablePromoted ==
  first.index > 0 => (preferredConsumerOrder /\ consumers[1].doc = first.doc)

\* C5: preferredConsumerOrder goes from false to true at most once and never
\* back; it is true exactly when some frame has resolved; the swap branch
\* has run once if the first successful resolution was at an index > 0 and
\* never otherwise, and it runs only while the flag is false.
C5_SettledOnceSwapAtMostOnce ==
  /\ [](/\ swapCount \in {0, 1}
        /\ preferredConsumerOrder <=> (first.index # -1)
        /\ (swapCount = 1) <=> (first.index > 0))
  /\ [][/\ preferredConsumerOrder => preferredConsumerOrder'
        /\ swapCount' # swapCount => (~preferredConsumerOrder /\ preferredConsumerOrder')]_vars

C5_Witness ==
  /\ pc = "done"
  /\ swapCount = 1
  /\ first.index = 1
  /\ fi = 3
  /\ lastKind = "resolved"
  /\ preferredConsumerOrder

\* C6 (as claimed): a run that ends before the resolution pass has printed a
\* diagnostic and no trace line, neither the header nor a frame line.
Diagnostics == {diag[i] : i \in 1..Len(diag)} \ {"log: args"}
C6_FatalPrintsDiagnosticOnly ==
  pc \in {"aborted", "returned"} => (trace = <<>> /\ Diagnostics # {})

\* C7 (as claimed): a frame whose query throws is rendered as the line
\* `    at FAILED_TO_PARSE_LINE` and the pass goes on to the next frame.
C7_FailedFramePrintsMarkerOnly ==
  [][(pc = "resolving" /\ CurUsable /\ ThrowsFirst) =>
       (trace' = Append(trace, FailedMarker) /\ Continues)]_vars

\* C7 (amended): a frame whose query throws is rendered as one line made of
\* the caught error, a space and `    at FAILED_TO_PARSE_LINE`; the settled
\* flag, the Table Set and the swap count are left as they were and the pass
\* goes on to the next frame.
C7_FailedFramePrintsErrorAndMarker ==
  [][(pc = "resolving" /\ CurUsable /\ ThrowsFirst) =>
       /\ trace' = Append(trace, ErrText \o " " \o FailedMarker)
       /\ lastKind' = "threw"
       /\ preferredConsumerOrder' = preferredConsumerOrder
       /\ consumers' = consumers
       /\ swapCount' = swapCount
       /\ Continues]_vars

\* a frame has thrown and the frame after it has been resolved and printed
C7_Witness ==
  /\ pc = "done"
  /\ Len(trace) = 3
  /\ trace[2] = "Error: lookup failed     at FAILED_TO_PARSE_LINE"
  /\ trace[3] = "    at bar (src/bar.ts:7:0)"
  /\ lastKind = "resolved"

\* C8: for a frame whose line number is null or less than 1 no table is
\* queried, exactly one line `    at <methodName>` is printed, with
\* `[unknown]` for an absent method name, and the settled flag and the Table
\* Set are left as they were.
C8_NoLineFrameNotLookedUp ==
  [][(pc = "resolving" /\ ~CurUsable) =>
       /\ queried' = <<>>
       /\ trace' = Append(trace, "    at " \o (IF CurFrame.methodName = "" THEN "[unknown]"
                                                 ELSE CurFrame.methodName))
       /\ preferredConsumerOrder' = preferredConsumerOrder
       /\ consumers' = consumers
       /\ Continues]_vars

C8_Witness ==
  /\ lastKind = "noline"
  /\ fi = 3
  /\ stack[1].lineNumber = Some(0)
  /\ stack[2].lineNumber = None
  /\ trace = <<"Error: boom", "    at foo", "    at [unknown]">>
  /\ queried = <<>>

\* C9: for a frame with a usable line number that every table reports as not
\* found, no line is printed, the settled flag is left as it was and the
\* pass goes on to the next frame.
C9_UnresolvedFrameDropped ==
  [][(pc = "resolving" /\ CurUsable /\ Hits = {} /\ Throwers = {}) =>
       /\ trace' = trace
       /\ preferredConsumerOrder' = preferredConsumerOrder
       /\ consumers' = consumers
       /\ Continues]_vars

\* no table resolved the first frame, the second frame was resolved
C9_Witness ==
  /\ pc = "done"
  /\ fi = 3
  /\ stack[1].lineNumber = Some(2)
  /\ stack[2].lineNumber = Some(1)
  /\ trace = <<"Error: boom", "    at foo (src/foo.ts:5:2)">>
  /\ first.index = 0

\* C10 (as claimed): every table of the Table Set is as it was constructed.
C10_TablesNeverWritten ==
  \A j \in 1..Len(consumers) :
     consumers[j] = NewTable(consumers[j].doc, mapPath.docs[consumers[j].doc])

====
